---- MODULE Spec2Model ----
(***************************************************************************)
(* Model of specfabpy/integrator.py: the Lagrangian parcel integrator      *)
(* lagrangianparcel() and the custom regularization builder                *)
(* M_REG_custom().                                                         *)
(*                                                                         *)
(* Numbers are exact rationals <<numerator, denominator>>; None is the     *)
(* empty tuple <<>>.  Coefficients are expressed in units of               *)
(* 1/sqrt(4*pi), so that the isotropic state has zeroth coefficient 1.     *)
(* The fabric library `sf` is not part of integrator.py; its functions are *)
(* modelled by fixed stand-ins (kinematics as records naming the call and  *)
(* its arguments, operators as small concrete matrices).                   *)
(***************************************************************************)
EXTENDS Integers, Sequences, FiniteSets, TLC

MaxNt == 2

None == <<>>

----------------------------------------------------------------------------
(* Exact rational arithmetic (python floats, without rounding)             *)

Abs(x) == IF x < 0 THEN -x ELSE x

RECURSIVE GCD(_, _)
GCD(a, b) == IF b = 0 THEN a ELSE GCD(b, a % b)

Rat(n, d) ==
    LET g == GCD(Abs(n), Abs(d))
        s == IF d < 0 THEN -1 ELSE 1
    IN  <<(s * n) \div g, (s * d) \div g>>

R(n) == <<n, 1>>
RZero == R(0)
ROne == R(1)
RAdd(x, y) == Rat(x[1] * y[2] + y[1] * x[2], x[2] * y[2])
RMul(x, y) == Rat(x[1] * y[1], x[2] * y[2])
RNeg(x) == <<-x[1], x[2]>>
RAbs(x) == <<Abs(x[1]), x[2]>>
RDivInt(x, n) == Rat(x[1], x[2] * n)
RLe(x, y) == x[1] * y[2] <= y[1] * x[2]

\* np.power(x, k) for an integer exponent k >= 0; np.power(0, 0) = 1
RECURSIVE RPow(_, _)
RPow(x, k) == IF k = 0 THEN ROne ELSE RMul(x, RPow(x, k - 1))

----------------------------------------------------------------------------
(* The fabric library: truncation and kinematics                           *)

Lcap == 2

\* sf.nlm_len()
NlmLen == ((Lcap + 1) * (Lcap + 2)) \div 2

Idx == 1..NlmLen

\* degree l of the i-th coefficient (even degrees 0, 2, .., Lcap; 2l+1 orders each)
DegreeOf(i) ==
    CHOOSE l \in {k \in 0..Lcap : k % 2 = 0} :
        (l * (l - 1)) \div 2 < i /\ i <= ((l + 1) * (l + 2)) \div 2

\* sf.simpleshear_gamma_to_t(gamma, T)
simpleshear_gamma_to_t(gamma, T) == R(T * gamma)

\* sf.pureshear_strainii_to_t(strain, T)
pureshear_strainii_to_t(strain, T) == R(T * (strain + 1))

\* sf.simpleshear_F(plane, T, t)
simpleshear_F(plane, T, t) ==
    [fn |-> "simpleshear_F", geom |-> <<plane>>, T |-> T, t |-> t]

\* sf.pureshear_F(axis, r, T, t)
pureshear_F(axis, r, T, t) ==
    [fn |-> "pureshear_F", geom |-> <<axis, r>>, T |-> T, t |-> t]

\* sf.simpleshear_ugrad(plane, T)
simpleshear_ugrad(plane, T) ==
    [fn |-> "simpleshear_ugrad", geom |-> <<plane>>, T |-> T]

\* sf.pureshear_ugrad(axis, r, T)
pureshear_ugrad(axis, r, T) ==
    [fn |-> "pureshear_ugrad", geom |-> <<axis, r>>, T |-> T]

\* sf.ugrad_to_D_and_W(ugrad)
ugrad_to_D_and_W(u) == <<[part |-> "D", of |-> u], [part |-> "W", of |-> u]>>

\* np.linalg.norm(D): magnitude of the strain-rate tensor, 1/T-proportional
NormD(d) ==
    IF d.of.fn = "simpleshear_ugrad" THEN Rat(1, d.of.T) ELSE Rat(2, d.of.T)

----------------------------------------------------------------------------
(* Vectors and matrices of rationals                                       *)

ZeroVec == [i \in Idx |-> RZero]
ZeroMat == [i \in Idx |-> [j \in Idx |-> RZero]]

RECURSIVE RSum(_, _)
RSum(f, n) == IF n = 0 THEN RZero ELSE RAdd(f[n], RSum(f, n - 1))

MatVec(M, v) == [i \in Idx |-> RSum([j \in Idx |-> RMul(M[i][j], v[j])], NlmLen)]
MAdd(A, B) == [i \in Idx |-> [j \in Idx |-> RAdd(A[i][j], B[i][j])]]
MScale(c, A) == [i \in Idx |-> [j \in Idx |-> RMul(c, A[i][j])]]
VAdd(u, v) == [i \in Idx |-> RAdd(u[i], v[i])]
VScale(c, v) == [i \in Idx |-> RMul(c, v[i])]

\* squared Euclidean norm of a coefficient vector
Norm2(v) == RSum([i \in Idx |-> RMul(v[i], v[i])], NlmLen)

----------------------------------------------------------------------------
(* The fabric library: operator constructors                               *)

\* sf.Lmat(nlm): angular Laplacian, diagonal with entries -l(l+1)
sf_Lmat ==
    [i \in Idx |-> [j \in Idx |->
        IF i = j THEN R(-(DegreeOf(i) * (DegreeOf(i) + 1))) ELSE RZero]]

\* sf.M_REG(nlm, D): default regularization, scaled by the strain-rate magnitude
sf_M_REG(d) == MScale(RDivInt(NormD(d), Lcap * (Lcap + 1)), sf_Lmat)

\* sf.M_CDRX(nlm): depends on the truncation only
sf_M_CDRX == MScale(Rat(1, 2), sf_Lmat)

\* sf.M_LROT(nlm, D, W, iota, zeta): non-diagonal, linear in iota and zeta
sf_M_LROT(d, w, iota, zeta) ==
    [i \in Idx |-> [j \in Idx |->
        IF j = i + 1 THEN RMul(iota, NormD(d))
        ELSE IF i = j + 1 THEN RAdd(RNeg(RMul(iota, NormD(w))), zeta)
        ELSE RZero]]

\* sf.M_DDRX(nlm, S): the state-dependent operator; it acts on the components the
\* state populates, at a rate set by the stress magnitude
sf_M_DDRX(v, s) ==
    [i \in Idx |-> [j \in Idx |->
        IF i = j /\ v[i] # RZero THEN RNeg(NormD(s))
        ELSE IF j = 1 /\ i = 2 /\ v[i] = RZero THEN NormD(s)
        ELSE RZero]]

----------------------------------------------------------------------------
(* integrator.py, pure parts                                               *)

\* mutant: the rigid-rotation tags fall into the simple-shear branch
IsSimpleShear_rr(m) == m["type"] \in {"simpleshear", "ss", "rigidrotation", "rr"}

IsSimpleShear(m) == m["type"] = "simpleshear" \/ m["type"] = "ss"
IsPureShear(m) == m["type"] = "pureshear" \/ m["type"] = "ps"
IsRigidRotation(m) == m["type"] = "rigidrotation" \/ m["type"] = "rr"
IsSupported(m) == IsSimpleShear(m) \/ IsPureShear(m)

\* if not ('T' in mod): mod['T'] = 1
WithDefaultT(m) ==
    IF "T" \in DOMAIN m THEN m
    ELSE [k \in DOMAIN m \cup {"T"} |-> IF k = "T" THEN 1 ELSE m[k]]

\* mutant: the target time is spread over Nt+1 points instead of Nt intervals
TimeStep_points(dtArg, target, Nt) ==
    IF dtArg = None THEN RDivInt(target, Nt + 1) ELSE dtArg

\* if dt is None: dt = <strain-to-time>/Nt
TimeStep(dtArg, target, Nt) ==
    IF dtArg = None THEN RDivInt(target, Nt) ELSE dtArg

\* dt*nt
TimeAt(step, i) == RMul(step, R(i))

\* np.zeros((Nt+1, nlm_len)) with row 0 set to the initial state
InitialHistory(Nt, nlm0) ==
    [t \in 0..Nt |->
        IF t = 0
        THEN IF nlm0 = None THEN [i \in Idx |-> IF i = 1 THEN ROne ELSE RZero]
             ELSE nlm0
        ELSE ZeroVec]

\* mutant: the sign of the damping operator is lost
M_REG_custom_sign(nu, expo, d) ==
    LET L == Lcap
        Ln == [i \in Idx |-> [j \in Idx |-> RDivInt(sf_Lmat[i][j], L * (L + 1))]]
        ratemag == RMul(nu, NormD(d))
    IN  [i \in Idx |-> [j \in Idx |->
            RMul(ratemag, RPow(RAbs(Ln[i][j]), expo[1]))]]

\* M_REG_custom(nu, expo, D, sf), for nu not None
M_REG_custom(nu, expo, d) ==
    LET L == Lcap
        Ln == [i \in Idx |-> [j \in Idx |-> RDivInt(sf_Lmat[i][j], L * (L + 1))]]
        ratemag == RMul(nu, NormD(d))
    IN  [i \in Idx |-> [j \in Idx |->
            RNeg(RMul(ratemag, RPow(RAbs(Ln[i][j]), expo[1])))]]

\* regexpo is None: nu*sf.M_REG(nlm_dummy, D) if nu is not None else M_zero
DefaultREG(nu, d, zero) == IF nu # None THEN MScale(nu, sf_M_REG(d)) ELSE zero

\* mutant: an omitted Gamma0 is taken as weight 1 instead of disabling the term
MigrationTerm_weight1(Gamma0, prev, s, zero) ==
    MScale(IF Gamma0 # None THEN Gamma0 ELSE ROne, sf_M_DDRX(prev, s))

\* Gamma0*sf.M_DDRX(nlm_prev, S) if Gamma0 is not None else M_zero
MigrationTerm(Gamma0, prev, s, zero) ==
    IF Gamma0 # None THEN MScale(Gamma0, sf_M_DDRX(prev, s)) ELSE zero

\* mutant: the custom builder is chosen only when nu does not select the default
UseCustom_nu(regexpo, nu) == regexpo # None /\ nu = None

\* which branch of the regularization choice is taken
UseCustom(regexpo, nu) == regexpo # None

\* mutant:  M = M_LROT; M += M_CDRX; M += M_REG  (M names the M_LROT array)
FreshSum_alias(ref) == ref

\* the array object bound to M by  M = M_LROT + M_CDRX + M_REG  (a new array)
FreshSum(ref) == "M"

\* nlm_prev + dt*np.matmul(M, nlm_prev)
EulerUpdate(prev, M, step) == VAdd(prev, VScale(step, MatVec(M, prev)))

\* mutant: nlm_prev (a view of row t-1) is updated in place before the store
StoreStep_inplace(hist, t, new) == [hist EXCEPT ![t] = new, ![t - 1] = new]

\* nlm[nt,:] = ...
StoreStep(hist, t, new) == [hist EXCEPT ![t] = new]

----------------------------------------------------------------------------
(* State of one call of lagrangianparcel                                   *)

VARIABLES
    pc,         \* position in lagrangianparcel
    mod,        \* the caller's mode descriptor (a dict, passed by reference)
    mod0,       \* the descriptor as it was when the call was made
    args,       \* the other arguments of the call
    dt,         \* local dt (the argument, or the derived step)
    F, ugrad, D, W, S, time,
    nlm, nlm_dummy,
    heap,       \* the operator arrays, by object
    M_REG, M_CDRX, M_LROT, M,   \* names bound to objects of heap
    nt,         \* last completed time index
    bar,        \* updates sent to the progress bar
    ret,        \* <<returned value>>, or <<>>
    err,        \* exception raised
    calls,      \* library functions and builders invoked by this call
    run,        \* 1: first call, 2: repeated call
    first       \* outcome of the first call

vars == <<pc, mod, mod0, args, dt, F, ugrad, D, W, S, time, nlm, nlm_dummy,
          heap, M_REG, M_CDRX, M_LROT, M, nt, bar, ret, err, calls, run, first>>

Objects == {"M_zero", "M_REG", "M_CDRX", "M_LROT", "M"}

Types == {"simpleshear", "ss", "pureshear", "ps", "rigidrotation", "rr", "uniaxial"}

Modes ==
    {[type |-> ty, plane |-> 0, axis |-> 1, r |-> 0] : ty \in Types}
    \cup {[type |-> ty, plane |-> 0, axis |-> 1, r |-> 0, T |-> 2] : ty \in Types}

Weights == {None, R(1)}
NuValues == {None, R(1), R(2)}
Exponents == {None, R(0), R(2)}
Steps == {None, R(3)}
Nlm0Values == {None, [i \in Idx |-> IF i <= 2 THEN R(i) ELSE RZero]}

Args ==
    [strain_target : {2}, Nt : 1..MaxNt, dt : Steps, nlm0 : Nlm0Values,
     verbose : {TRUE}, apply_bounds : {FALSE},
     iota : Weights, zeta : {RZero}, Lambda : Weights, Gamma0 : Weights,
     nu : NuValues, regexpo : Exponents]

Locals0 ==
    /\ dt = None /\ F = None /\ ugrad = None /\ D = None /\ W = None
    /\ S = None /\ time = None /\ nlm = None /\ nlm_dummy = None
    /\ heap = [o \in Objects |-> None]
    /\ M_REG = "" /\ M_CDRX = "" /\ M_LROT = "" /\ M = ""
    /\ nt = 0 /\ bar = 0 /\ ret = None /\ err = "" /\ calls = {}

Init ==
    /\ pc = "call"
    /\ mod \in Modes
    /\ mod0 = mod
    /\ args \in Args
    /\ Locals0
    /\ run = 1
    /\ first = [ret |-> None, err |-> ""]

----------------------------------------------------------------------------
(* lagrangianparcel, statement by statement                                *)

\* line 17
DefaultT ==
    /\ pc = "call"
    /\ mod' = WithDefaultT(mod)
    /\ pc' = "mode"
    /\ UNCHANGED <<mod0, args, dt, F, ugrad, D, W, S, time, nlm, nlm_dummy,
                   heap, M_REG, M_CDRX, M_LROT, M, nt, bar, ret, err, calls,
                   run, first>>

\* lines 19-23
TrajectorySimpleShear ==
    /\ pc = "mode"
    /\ IsSimpleShear(mod)
    /\ LET step == TimeStep(args.dt,
                     simpleshear_gamma_to_t(args.strain_target, mod["T"]), args.Nt)
       IN  /\ dt' = step
           /\ F' = [i \in 0..args.Nt |->
                       simpleshear_F(mod["plane"], mod["T"], TimeAt(step, i))]
    /\ ugrad' = simpleshear_ugrad(mod["plane"], mod["T"])
    /\ calls' = calls \cup {"sf.simpleshear_F", "sf.simpleshear_ugrad"}
    /\ pc' = "decompose"
    /\ UNCHANGED <<mod, mod0, args, D, W, S, time, nlm, nlm_dummy, heap,
                   M_REG, M_CDRX, M_LROT, M, nt, bar, ret, err, run, first>>

\* lines 25-29
TrajectoryPureShear ==
    /\ pc = "mode"
    /\ ~IsSimpleShear(mod)
    /\ IsPureShear(mod)
    /\ LET step == TimeStep(args.dt,
                     pureshear_strainii_to_t(args.strain_target, mod["T"]), args.Nt)
       IN  /\ dt' = step
           /\ F' = [i \in 0..args.Nt |->
                       pureshear_F(mod["axis"], mod["r"], mod["T"], TimeAt(step, i))]
    /\ ugrad' = pureshear_ugrad(mod["axis"], mod["r"], mod["T"])
    /\ calls' = calls \cup {"sf.pureshear_F", "sf.pureshear_ugrad"}
    /\ pc' = "decompose"
    /\ UNCHANGED <<mod, mod0, args, D, W, S, time, nlm, nlm_dummy, heap,
                   M_REG, M_CDRX, M_LROT, M, nt, bar, ret, err, run, first>>

\* lines 31-33
RaiseRigidRotation ==
    /\ pc = "mode"
    /\ ~IsSimpleShear(mod)
    /\ ~IsPureShear(mod)
    /\ IsRigidRotation(mod)
    /\ err' = "Exception"
    /\ pc' = "raised"
    /\ UNCHANGED <<mod, mod0, args, dt, F, ugrad, D, W, S, time, nlm, nlm_dummy,
                   heap, M_REG, M_CDRX, M_LROT, M, nt, bar, ret, calls, run, first>>

\* lines 35-36
RaiseUnsupported ==
    /\ pc = "mode"
    /\ ~IsSimpleShear(mod)
    /\ ~IsPureShear(mod)
    /\ ~IsRigidRotation(mod)
    /\ err' = "ValueError"
    /\ pc' = "raised"
    /\ UNCHANGED <<mod, mod0, args, dt, F, ugrad, D, W, S, time, nlm, nlm_dummy,
                   heap, M_REG, M_CDRX, M_LROT, M, nt, bar, ret, calls, run, first>>

\* lines 38-40
Decompose ==
    /\ pc = "decompose"
    /\ D' = ugrad_to_D_and_W(ugrad)[1]
    /\ W' = ugrad_to_D_and_W(ugrad)[2]
    /\ S' = ugrad_to_D_and_W(ugrad)[1]
    /\ time' = [i \in 0..args.Nt |-> TimeAt(dt, i)]
    /\ pc' = "state"
    /\ UNCHANGED <<mod, mod0, args, dt, F, ugrad, nlm, nlm_dummy, heap,
                   M_REG, M_CDRX, M_LROT, M, nt, bar, ret, err, calls, run, first>>

\* lines 44-48
InitState ==
    /\ pc = "state"
    /\ nlm' = InitialHistory(args.Nt, args.nlm0)
    /\ nlm_dummy' = InitialHistory(args.Nt, args.nlm0)[0]
    /\ pc' = "reg"
    /\ UNCHANGED <<mod, mod0, args, dt, F, ugrad, D, W, S, time, heap,
                   M_REG, M_CDRX, M_LROT, M, nt, bar, ret, err, calls, run, first>>

\* lines 52-55, regexpo is None
RegDefault ==
    /\ pc = "reg"
    /\ ~UseCustom(args.regexpo, args.nu)
    /\ heap' = [heap EXCEPT !["M_zero"] = ZeroMat,
                            !["M_REG"] = IF args.nu # None
                                         THEN DefaultREG(args.nu, D, ZeroMat)
                                         ELSE None]
    /\ M_REG' = IF args.nu # None THEN "M_REG" ELSE "M_zero"
    /\ calls' = IF args.nu # None THEN calls \cup {"sf.M_REG"} ELSE calls
    /\ pc' = "cdrx"
    /\ UNCHANGED <<mod, mod0, args, dt, F, ugrad, D, W, S, time, nlm, nlm_dummy,
                   M_CDRX, M_LROT, M, nt, bar, ret, err, run, first>>

\* lines 52-56, regexpo given and nu given
RegCustom ==
    /\ pc = "reg"
    /\ UseCustom(args.regexpo, args.nu)
    /\ args.nu # None
    /\ heap' = [heap EXCEPT !["M_zero"] = ZeroMat,
                            !["M_REG"] = M_REG_custom(args.nu, args.regexpo, D)]
    /\ M_REG' = "M_REG"
    /\ calls' = calls \cup {"M_REG_custom", "sf.Lmat"}
    /\ pc' = "cdrx"
    /\ UNCHANGED <<mod, mod0, args, dt, F, ugrad, D, W, S, time, nlm, nlm_dummy,
                   M_CDRX, M_LROT, M, nt, bar, ret, err, run, first>>

\* lines 52-56 and 85-89, regexpo given and nu None:  ratemag = nu*np.linalg.norm(D)
\* multiplies None by a float
RegCustomTypeError ==
    /\ pc = "reg"
    /\ UseCustom(args.regexpo, args.nu)
    /\ args.nu = None
    /\ heap' = [heap EXCEPT !["M_zero"] = ZeroMat]
    /\ calls' = calls \cup {"M_REG_custom", "sf.Lmat"}
    /\ err' = "TypeError"
    /\ pc' = "raised"
    /\ UNCHANGED <<mod, mod0, args, dt, F, ugrad, D, W, S, time, nlm, nlm_dummy,
                   M_REG, M_CDRX, M_LROT, M, nt, bar, ret, run, first>>

\* line 59
AssembleCDRX ==
    /\ pc = "cdrx"
    /\ heap' = [heap EXCEPT !["M_CDRX"] = IF args.Lambda # None
                                          THEN MScale(args.Lambda, sf_M_CDRX)
                                          ELSE None]
    /\ M_CDRX' = IF args.Lambda # None THEN "M_CDRX" ELSE "M_zero"
    /\ calls' = IF args.Lambda # None THEN calls \cup {"sf.M_CDRX"} ELSE calls
    /\ pc' = "lrot"
    /\ UNCHANGED <<mod, mod0, args, dt, F, ugrad, D, W, S, time, nlm, nlm_dummy,
                   M_REG, M_LROT, M, nt, bar, ret, err, run, first>>

\* line 62
AssembleLROT ==
    /\ pc = "lrot"
    /\ heap' = [heap EXCEPT !["M_LROT"] = IF args.iota # None
                                          THEN sf_M_LROT(D, W, args.iota, args.zeta)
                                          ELSE None]
    /\ M_LROT' = IF args.iota # None THEN "M_LROT" ELSE "M_zero"
    /\ calls' = IF args.iota # None THEN calls \cup {"sf.M_LROT"} ELSE calls
    /\ pc' = "bar"
    /\ UNCHANGED <<mod, mod0, args, dt, F, ugrad, D, W, S, time, nlm, nlm_dummy,
                   M_REG, M_CDRX, M, nt, bar, ret, err, run, first>>

\* line 66
CreateBar ==
    /\ pc = "bar"
    /\ bar' = 0
    /\ pc' = "loop"
    /\ UNCHANGED <<mod, mod0, args, dt, F, ugrad, D, W, S, time, nlm, nlm_dummy,
                   heap, M_REG, M_CDRX, M_LROT, M, nt, ret, err, calls, run, first>>

\* mutant: with the progress bar on, the loop stops at the bar's max (Nt-1)
LastStep_bar(Nt) == IF args.verbose THEN Nt - 1 ELSE Nt

\* last value of  np.arange(1, Nt+1)
LastStep(Nt) == Nt

\* lines 68-74, one iteration
Step ==
    /\ pc = "loop"
    /\ nt < LastStep(args.Nt)
    /\ LET t == nt + 1
           nlm_prev == nlm[t - 1]
           m == FreshSum(M_LROT)
           h1 == [heap EXCEPT ![m] =
                     MAdd(MAdd(heap[M_LROT], heap[M_CDRX]), heap[M_REG])]
           h2 == [h1 EXCEPT ![m] =
                     MAdd(h1[m], MigrationTerm(args.Gamma0, nlm_prev, S, h1["M_zero"]))]
       IN  /\ M' = m
           /\ heap' = h2
           /\ nlm' = StoreStep(nlm, t, EulerUpdate(nlm_prev, h2[m], dt))
           /\ nt' = t
    /\ calls' = IF args.Gamma0 # None THEN calls \cup {"sf.M_DDRX"} ELSE calls
    /\ bar' = IF args.verbose THEN bar + 1 ELSE bar
    /\ UNCHANGED <<pc, mod, mod0, args, dt, F, ugrad, D, W, S, time, nlm_dummy,
                   M_REG, M_CDRX, M_LROT, ret, err, run, first>>

\* line 76
Return ==
    /\ pc = "loop"
    /\ nt >= LastStep(args.Nt)
    /\ ret' = <<[nlm |-> nlm, F |-> F, time |-> time, ugrad |-> ugrad]>>
    /\ pc' = "done"
    /\ UNCHANGED <<mod, mod0, args, dt, F, ugrad, D, W, S, time, nlm, nlm_dummy,
                   heap, M_REG, M_CDRX, M_LROT, M, nt, bar, err, calls, run, first>>

Next ==
    \/ DefaultT
    \/ TrajectorySimpleShear
    \/ TrajectoryPureShear
    \/ RaiseRigidRotation
    \/ RaiseUnsupported
    \/ Decompose
    \/ InitState
    \/ RegDefault
    \/ RegCustom
    \/ RegCustomTypeError
    \/ AssembleCDRX
    \/ AssembleLROT
    \/ CreateBar
    \/ Step
    \/ Return

Spec == Init /\ [][Next]_vars

----------------------------------------------------------------------------
(* A caller that repeats the call with the same arguments, the two         *)
(* presentation flags chosen afresh; it passes either the same dict object *)
(* (as the first call left it) or an equal copy of the original one.       *)

Recall ==
    /\ run = 1
    /\ pc \in {"done", "raised"}
    /\ run' = 2
    /\ first' = [ret |-> ret, err |-> err]
    /\ \E v \in BOOLEAN, b \in BOOLEAN :
          args' = [args EXCEPT !.verbose = v, !.apply_bounds = b]
    /\ mod' \in {mod, mod0}
    /\ mod0' = mod'
    /\ pc' = "call"
    /\ dt' = None /\ F' = None /\ ugrad' = None /\ D' = None /\ W' = None
    /\ S' = None /\ time' = None /\ nlm' = None /\ nlm_dummy' = None
    /\ heap' = [o \in Objects |-> None]
    /\ M_REG' = "" /\ M_CDRX' = "" /\ M_LROT' = "" /\ M' = ""
    /\ nt' = 0 /\ bar' = 0 /\ ret' = None /\ err' = "" /\ calls' = {}

NextRerun ==
    \/ Next
    \/ Recall

TypesRerun == {"ss", "pureshear", "rr", "uniaxial"}

ArgsRerun ==
    [strain_target : {2}, Nt : 1..MaxNt, dt : Steps, nlm0 : Nlm0Values,
     verbose : {TRUE}, apply_bounds : {FALSE},
     iota : Weights, zeta : {RZero}, Lambda : {None}, Gamma0 : Weights,
     nu : {None, R(1)}, regexpo : {None, R(2)}]

InitRerun ==
    /\ Init
    /\ mod["type"] \in TypesRerun
    /\ args \in ArgsRerun

SpecRerun == InitRerun /\ [][NextRerun]_vars

----------------------------------------------------------------------------
(* Properties                                                              *)

SupportedTypes == {"simpleshear", "ss", "pureshear", "ps"}

Allocated(x) == DOMAIN x # {}

PastAssembly == {"cdrx", "lrot", "bar", "loop", "done"}

\* C1: a call whose mode type is not simpleshear/ss/pureshear/ps (rigid rotation
\* included) can only raise: from the mode test its one step is the raise, and
\* until then and after it no deformation gradient has been computed, no
\* coefficient history allocated, no library function called, no step taken and
\* nothing returned.
C1_UnsupportedModeRaisesFirst ==
    /\ [](mod["type"] \notin SupportedTypes =>
            /\ pc \in {"call", "mode", "raised"}
            /\ (pc = "raised" =>
                  err = IF mod["type"] \in {"rigidrotation", "rr"}
                        THEN "Exception" ELSE "ValueError")
            /\ ~Allocated(F) /\ ~Allocated(nlm) /\ ~Allocated(time)
            /\ calls = {} /\ nt = 0 /\ ret = None)
    /\ [][(mod["type"] \notin SupportedTypes /\ pc = "mode") => pc' = "raised"]_vars

C1_Witness ==
    /\ pc = "raised" /\ err = "Exception" /\ mod["type"] = "rr"
    /\ args.nu # None /\ args.iota # None

AllWeightsOmitted ==
    /\ args.Gamma0 = None /\ args.Lambda = None
    /\ args.iota = None /\ args.nu = None

\* C2: with Gamma0, Lambda, iota and nu all None, every step taken uses the zero
\* operator and leaves the coefficient vector unchanged: every row written so far
\* equals row 0, which is the isotropic vector or the caller's nlm0.
C2_NoProcessNoChange ==
    (AllWeightsOmitted /\ Allocated(nlm)) =>
        /\ nlm[0] = IF args.nlm0 = None
                    THEN [i \in Idx |-> IF i = 1 THEN ROne ELSE RZero]
                    ELSE args.nlm0
        /\ \A t \in 0..nt : nlm[t] = nlm[0]
        /\ (nt >= 1 => heap[M] = ZeroMat)
        /\ (pc = "done" => nt = args.Nt)

C2_Witness ==
    /\ pc = "done" /\ AllWeightsOmitted /\ args.Nt >= 2 /\ nt = args.Nt
    /\ args.nlm0 # None /\ nlm[args.Nt] = args.nlm0

\* C3 (as claimed): with a supported mode no combination of present and absent
\* iota, Lambda, Gamma0, nu, with regexpo set or unset, ends the call in an error.
C3_OmittedWeightNeverAnError ==
    mod["type"] \in SupportedTypes => err = ""

ExpectedREG ==
    IF args.regexpo = None
    THEN IF args.nu # None THEN MScale(args.nu, sf_M_REG(D)) ELSE ZeroMat
    ELSE M_REG_custom(args.nu, args.regexpo, D)

\* C4: regexpo alone chooses the regularization term.  Unset: the term is
\* nu*sf.M_REG (zero when nu is None) and M_REG_custom is never invoked.  Set: the
\* term is the result of M_REG_custom(nu, regexpo, D) and sf.M_REG is never
\* invoked, whatever nu is.
C4_RegexpoAloneSelects ==
    /\ (args.regexpo = None =>
            /\ "M_REG_custom" \notin calls
            /\ (args.nu = None => "sf.M_REG" \notin calls))
    /\ (args.regexpo # None =>
            /\ "sf.M_REG" \notin calls
            /\ (pc \in PastAssembly \cup {"raised"} /\ mod["type"] \in SupportedTypes
                    => "M_REG_custom" \in calls))
    /\ (pc \in PastAssembly =>
            /\ heap[M_REG] = ExpectedREG
            /\ ("sf.M_REG" \in calls <=> (args.regexpo = None /\ args.nu # None)))

C4_Witness ==
    /\ pc = "done" /\ args.regexpo # None /\ args.nu # None
    /\ "M_REG_custom" \in calls /\ heap[M_REG] # ZeroMat

\* the time scale the caller asked for: mod['T'], or 1 when the key is absent
CallerT == IF "T" \in DOMAIN mod0 THEN mod0["T"] ELSE 1

TargetTime ==
    IF mod["type"] \in {"simpleshear", "ss"}
    THEN simpleshear_gamma_to_t(args.strain_target, CallerT)
    ELSE pureshear_strainii_to_t(args.strain_target, CallerT)

\* C5: when dt is not supplied, the derived step satisfies dt*Nt = strain-to-time
\* (target strain, T) for simple and for pure shear; F has an entry for every
\* index 0..Nt, evaluated at time dt*i; the time stamps are time[i] = dt*i, so
\* that time[Nt] is the strain-to-time value.
C5_DerivedStepSpansTarget ==
    (args.dt = None /\ Allocated(F)) =>
        /\ RMul(dt, R(args.Nt)) = TargetTime
        /\ DOMAIN F = 0..args.Nt
        /\ \A i \in 0..args.Nt : F[i].t = RMul(dt, R(i)) /\ F[i].T = CallerT
        /\ (Allocated(time) =>
              /\ DOMAIN time = 0..args.Nt
              /\ \A i \in 0..args.Nt : time[i] = RMul(dt, R(i))
              /\ time[args.Nt] = TargetTime)

C5_Witness ==
    /\ pc = "done" /\ args.dt = None /\ args.Nt >= 2
    /\ "T" \notin DOMAIN mod0 /\ mod["type"] = "ps"
    /\ time[args.Nt] = TargetTime

\* C6: the coefficient history has Nt+1 entries from its allocation on; entry 0
\* holds the initial state before the first step; a step advances the time index
\* by one and writes only the entry of the new index; entries up to the current
\* index are never changed again; entries above it are the zero vector.
C6_HistoryWriteOnce ==
    [][Allocated(nlm') =>
          /\ DOMAIN nlm' = 0..args.Nt
          /\ nt' \in 0..args.Nt
          /\ \A t \in (nt' + 1)..args.Nt : nlm'[t] = ZeroVec
          /\ (~Allocated(nlm) =>
                /\ nt' = 0
                /\ nlm'[0] = IF args.nlm0 = None
                             THEN [i \in Idx |-> IF i = 1 THEN ROne ELSE RZero]
                             ELSE args.nlm0)
          /\ (Allocated(nlm) =>
                /\ nt' \in {nt, nt + 1}
                /\ \A t \in 0..nt : nlm'[t] = nlm[t]
                /\ (nt' = nt => nlm' = nlm))]_vars

C6_Witness ==
    /\ pc = "done" /\ args.Nt >= 2 /\ nt = args.Nt
    /\ args.iota # None /\ nlm[1] # nlm[0] /\ nlm[2] # nlm[1]

\* C7 (as claimed): the caller's mode descriptor holds the same keys and values
\* during and after the call as when the call was made.
C7_DescriptorUnchanged ==
    mod = mod0

RegularizationOnly ==
    /\ args.nu # None /\ args.nu[1] > 0
    /\ args.iota = None /\ args.Lambda = None /\ args.Gamma0 = None

NormNonIncreasing ==
    \A t \in 1..nt : RLe(Norm2(nlm[t]), Norm2(nlm[t - 1]))

\* C8 (as claimed): in a regularization-only run, with the default or the custom
\* operator and for every step size and step count, the norm of the coefficient
\* vector never increases from one step to the next.
C8_DampingForEveryStepSize ==
    (RegularizationOnly /\ Allocated(nlm)) => NormNonIncreasing

\* the operator is diagonal and every dt*M[i][i] lies in [-2, 0]
StableDiagonal(A, step) ==
    \A i \in Idx : \A j \in Idx :
        IF i = j
        THEN RLe(R(-2), RMul(step, A[i][j])) /\ RLe(RMul(step, A[i][j]), RZero)
        ELSE A[i][j] = RZero

\* C8 (amended): in a regularization-only run the norm never increases from one
\* step to the next when the regularization operator is diagonal with every
\* dt*M_REG[i][i] in [-2, 0]; the custom operator is such whenever regexpo > 0 and
\* 0 <= dt*nu*|D| <= 2.
C8_DampingForStableStep ==
    (RegularizationOnly /\ Allocated(nlm) /\ pc \in PastAssembly) =>
        /\ ((args.regexpo # None /\ args.regexpo[1] > 0
              /\ RLe(RZero, RMul(dt, RMul(args.nu, NormD(D))))
              /\ RLe(RMul(dt, RMul(args.nu, NormD(D))), R(2)))
                => StableDiagonal(heap[M_REG], dt))
        /\ (StableDiagonal(heap[M_REG], dt) => NormNonIncreasing)

C8_Witness ==
    /\ pc = "done" /\ RegularizationOnly /\ args.Nt >= 2
    /\ args.regexpo # None /\ args.regexpo[1] > 0
    /\ StableDiagonal(heap[M_REG], dt)
    /\ Norm2(nlm[args.Nt]) # Norm2(nlm[0])
    /\ RLe(Norm2(nlm[args.Nt]), Norm2(nlm[0]))

\* C9: a repeated call with the same mode, strain target, Nt, dt, nlm0 and
\* process weights ends as the first call did, with the same coefficient history,
\* deformation gradients, time stamps and velocity gradient (or the same error),
\* whatever the verbose and apply_bounds flags of the two calls are.
C9_SameInputsSameOutputs ==
    (run = 2 /\ pc \in {"done", "raised"}) =>
        /\ ret = first.ret
        /\ err = first.err
        /\ (pc = "done" <=> first.ret # None)

C9_Witness ==
    /\ run = 2 /\ pc = "done" /\ ~args.verbose /\ args.apply_bounds
    /\ args.Gamma0 # None /\ args.nlm0 # None /\ args.Nt >= 2
    /\ first.ret # None /\ bar = 0

ExpectedLROT ==
    IF args.iota # None THEN sf_M_LROT(D, W, args.iota, args.zeta) ELSE ZeroMat

ExpectedCDRX ==
    IF args.Lambda # None THEN MScale(args.Lambda, sf_M_CDRX) ELSE ZeroMat

ExpectedOperator(prev) ==
    LET const == MAdd(MAdd(ExpectedLROT, ExpectedCDRX), ExpectedREG)
    IN  IF args.Gamma0 # None
        THEN MAdd(const, MScale(args.Gamma0, sf_M_DDRX(prev, S)))
        ELSE const

\* C10: every written entry t >= 1 is nlm[t-1] + dt*(M_t . nlm[t-1]) with
\* M_t = M_LROT + M_CDRX + M_REG (+ Gamma0*M_DDRX(nlm[t-1], S) when Gamma0 is
\* given); the three constant operators and M_zero keep, at every step, the value
\* they were assembled with, and the operator of the last step is M_t.
C10_ForwardEulerStep ==
    (pc \in {"loop", "done"}) =>
        /\ heap["M_zero"] = ZeroMat
        /\ heap[M_LROT] = ExpectedLROT
        /\ heap[M_CDRX] = ExpectedCDRX
        /\ heap[M_REG] = ExpectedREG
        /\ \A t \in 1..nt :
              nlm[t] = VAdd(nlm[t - 1],
                            VScale(dt, MatVec(ExpectedOperator(nlm[t - 1]), nlm[t - 1])))
        /\ (nt >= 1 => heap[M] = ExpectedOperator(nlm[nt - 1]))

C10_Witness ==
    /\ pc = "done" /\ args.Nt >= 2 /\ nt = args.Nt
    /\ args.Gamma0 # None /\ args.iota # None /\ args.Lambda = None
    /\ ExpectedOperator(nlm[1]) # ExpectedOperator(nlm[0])

====
